---- MODULE Spec2Model ----
(***************************************************************************)
(* Model of packages/core/ai-model-specification/util/response-handler.ts  *)
(*                                                                         *)
(* Three response handlers:                                                *)
(*   createJsonErrorResponseHandler   (handler = "error")                  *)
(*   createEventSourceResponseHandler (handler = "stream")                 *)
(*   createJsonResponseHandler        (handler = "json")                   *)
(*                                                                         *)
(* Texts are sequences of one-character strings.  JSON is modelled on a    *)
(* small sub-language: numbers written with the digit 1, arrays with at    *)
(* most one element, and blanks as the only whitespace.                    *)
(***************************************************************************)
EXTENDS Integers, Sequences, FiniteSets, TLC

\* ------------------------------------------------------------------ bounds

\* longest response body text (error and whole-body handlers)
MaxBodyLen == 3

\* most events on the wire of a streamed response
MaxEvents == 3

\* ------------------------------------------------------------------- texts

BodyChars == {" ", "1", "[", "]"}

RECURSIVE TextsUpTo(_)
TextsUpTo(n) ==
    IF n = 0 THEN {<<>>}
    ELSE LET shorter == TextsUpTo(n - 1)
         IN  shorter \cup {Append(t, c) : t \in {s \in shorter : Len(s) = n - 1}, c \in BodyChars}

BodyTexts == TextsUpTo(MaxBodyLen)

\* String.prototype.trim on the model's alphabet
RECURSIVE TrimLeft(_)
TrimLeft(t) == IF t # <<>> /\ Head(t) = " " THEN TrimLeft(Tail(t)) ELSE t

RECURSIVE TrimRight(_)
TrimRight(t) ==
    IF t # <<>> /\ t[Len(t)] = " " THEN TrimRight(SubSeq(t, 1, Len(t) - 1)) ELSE t

Trim(t) == TrimRight(TrimLeft(t))

\* -------------------------------------------------------------- JSON values

Absent == [kind |-> "absent", n |-> 0, items |-> <<>>]

Num(k) == [kind |-> "num", n |-> k, items |-> <<>>]

Arr(vs) == [kind |-> "arr", n |-> 0, items |-> vs]

NoError == [name |-> "none", text |-> <<>>]

\* index of the first non-blank character at or after i (Len(t) + 1 if none)
RECURSIVE SkipWs(_, _)
SkipWs(t, i) == IF i <= Len(t) /\ t[i] = " " THEN SkipWs(t, i + 1) ELSE i

\* index after the run of digits that starts at i
RECURSIVE SkipDigits(_, _)
SkipDigits(t, i) == IF i <= Len(t) /\ t[i] = "1" THEN SkipDigits(t, i + 1) ELSE i

\* the number written with k digits 1
RECURSIVE Repunit(_)
Repunit(k) == IF k = 0 THEN 0 ELSE 10 * Repunit(k - 1) + 1

ParseFail == [ok |-> FALSE, value |-> Absent, next |-> 0]

\* one JSON value starting at index i
RECURSIVE ParseValue(_, _)
ParseValue(t, i) ==
    IF i > Len(t) THEN ParseFail
    ELSE IF t[i] = "1" THEN
        LET j == SkipDigits(t, i)
        IN  [ok |-> TRUE, value |-> Num(Repunit(j - i)), next |-> j]
    ELSE IF t[i] = "[" THEN
        LET j == SkipWs(t, i + 1)
        IN  IF j <= Len(t) /\ t[j] = "]"
            THEN [ok |-> TRUE, value |-> Arr(<<>>), next |-> j + 1]
            ELSE LET r == ParseValue(t, j)
                     k == SkipWs(t, r.next)
                 IN  IF r.ok /\ k <= Len(t) /\ t[k] = "]"
                     THEN [ok |-> TRUE, value |-> Arr(<<r.value>>), next |-> k + 1]
                     ELSE ParseFail
    ELSE ParseFail

\* JSON.parse: a value, with only blanks around it
JSONParse(t) ==
    LET r == ParseValue(t, SkipWs(t, 1))
    IN  IF r.ok /\ SkipWs(t, r.next) = Len(t) + 1
        THEN [ok |-> TRUE, value |-> r.value]
        ELSE [ok |-> FALSE, value |-> Absent]

\* the schemas a caller can pass: z.number(), z.array(z.number())
Schemas == {"number", "array"}

Conforms(v, schema) ==
    IF schema = "number" THEN v.kind = "num"
    ELSE v.kind = "arr" /\ \A i \in 1..Len(v.items) : v.items[i].kind = "num"

\* safeParseJSON({text, schema}): never raises
SafeParseJSON(text, schema) ==
    LET p == JSONParse(text)
    IN  IF ~p.ok
        THEN [success |-> FALSE, value |-> Absent,
              error |-> [name |-> "JSONParseError", text |-> text]]
        ELSE IF ~Conforms(p.value, schema)
        THEN [success |-> FALSE, value |-> Absent,
              error |-> [name |-> "TypeValidationError", text |-> text]]
        ELSE [success |-> TRUE, value |-> p.value, error |-> NoError]

\* parseJSON({text, schema}): raises where safeParseJSON reports a failure
ParseJSON(text, schema) ==
    LET r == SafeParseJSON(text, schema)
    IN  [threw |-> ~r.success, value |-> r.value, error |-> r.error]

\* ------------------------------------------------------------------- state

VARIABLES
    handler,            \* which response handler is invoked
    pc,                 \* position inside the handler's async function
    response,           \* the Response: status, statusText, body text / event stream
    url,                \* options.url
    requestBodyValues,  \* options.requestBodyValues
    schema,             \* errorSchema / chunkSchema / responseSchema
    errorToMessage,     \* the message-mapping callback (error handler)
    isRetryable,        \* the retryability callback, "none" when not supplied
    responseBody,       \* const responseBody = await response.text()
    parsedError,        \* const parsedError = parseJSON(...)
    message,            \* the evaluated message property of the object literal
    outcome,            \* "pending", "returned" or "threw"
    result,             \* the value returned or raised
    calls,              \* the callback invocations so far, in order
    bodyState,          \* response.body: "null", "readable", "closed", "cancelled"
    bodyPos,            \* wire blocks read from response.body so far
    decoded,            \* readable queue of the TextDecoderStream
    parsed,             \* readable queue of the EventSourceParserStream
    chunks,             \* readable queue of the TransformStream (ParsedChunks)
    emitted,            \* every chunk passed to controller.enqueue, in order
    delivered,          \* the chunks the consumer has read, in order
    transformCalls,     \* number of transform() invocations so far
    closed,             \* how far end-of-stream has travelled down the pipeline
    cancel,             \* how far a cancellation has travelled up the pipeline
    consumer            \* "none", "reading", "done" or "cancelled"

callVars == <<handler, response, url, requestBodyValues, schema, errorToMessage, isRetryable>>

localVars == <<responseBody, parsedError, message>>

streamVars == <<bodyState, bodyPos, decoded, parsed, chunks, emitted, delivered,
                transformCalls, closed, cancel, consumer>>

vars == <<handler, pc, response, url, requestBodyValues, schema, errorToMessage,
          isRetryable, responseBody, parsedError, message, outcome, result, calls,
          bodyState, bodyPos, decoded, parsed, chunks, emitted, delivered,
          transformCalls, closed, cancel, consumer>>

\* ------------------------------------------------------------------ inputs

Statuses == {429, 500}

StatusText(status) ==
    IF status = 429 THEN "Too Many Requests"
    ELSE IF status = 500 THEN "Internal Server Error"
    ELSE "OK"

Urls == {"https://api.example/v1", "https://api.example/v2"}

RequestBodies == {"request-1"}

\* errorToMessage callbacks a caller can pass
MessageMappers == {"byPayload", "throws"}

\* isRetryable callbacks a caller can pass; "none" is the omitted option
RetryPredicates == {"none", "status429", "payloadAware", "throwsOnPayload", "throws"}

\* errorToMessage(error)
ApplyErrorToMessage(f, payload) ==
    IF f = "throws" THEN [threw |-> TRUE, value |-> ""]
    ELSE [threw |-> FALSE,
          value |-> IF payload.kind = "num"
                    THEN (IF payload.n = 1 THEN "rate limited" ELSE "overloaded")
                    ELSE (IF payload.items = <<>> THEN "no details" ELSE "see details")]

\* isRetryable?.(response, error): "true", "false", "undefined" or "throw"
ApplyIsRetryable(f, status, payload) ==
    IF f = "none" THEN "undefined"
    ELSE IF f = "throws" THEN "throw"
    ELSE IF f = "throwsOnPayload" /\ payload # Absent THEN "throw"
    ELSE IF f = "payloadAware"
    THEN (IF payload.kind = "num" THEN "true" ELSE "false")
    ELSE (IF status = 429 THEN "true" ELSE "false")

\* ----------------------------------------------------------------- results

NoResult ==
    [type |-> "none", message |-> "", url |-> "", requestBodyValues |-> "",
     statusCode |-> 0, responseBody |-> <<>>, data |-> Absent,
     isRetryable |-> "undefined", cause |-> NoError, value |-> Absent]

\* an exception raised by a caller-supplied callback
CallbackError == [NoResult EXCEPT !.type = "CallbackError"]

Call(fn, payload) == [fn |-> fn, payload |-> payload]

\* new ApiCallError({message: response.statusText, ..., isRetryable: isRetryable?.(response)})
\* variant: the body is stored trimmed
FallbackErrorTrimmed(resp, u, req, body, retry) ==
    [NoResult EXCEPT !.type = "ApiCallError", !.message = resp.statusText, !.url = u,
                     !.requestBodyValues = req, !.statusCode = resp.status,
                     !.responseBody = Trim(body), !.isRetryable = retry]

FallbackError(resp, u, req, body, retry) ==
    [NoResult EXCEPT !.type = "ApiCallError", !.message = resp.statusText, !.url = u,
                     !.requestBodyValues = req, !.statusCode = resp.status,
                     !.responseBody = body, !.isRetryable = retry]

\* new ApiCallError({message: errorToMessage(parsedError), ..., data: parsedError, ...})
\* variant: the data property is left out
DecodedErrorNoData(resp, u, req, body, msg, payload, retry) ==
    [NoResult EXCEPT !.type = "ApiCallError", !.message = msg, !.url = u,
                     !.requestBodyValues = req, !.statusCode = resp.status,
                     !.responseBody = body, !.isRetryable = retry]

DecodedError(resp, u, req, body, msg, payload, retry) ==
    [NoResult EXCEPT !.type = "ApiCallError", !.message = msg, !.url = u,
                     !.requestBodyValues = req, !.statusCode = resp.status,
                     !.responseBody = body, !.data = payload, !.isRetryable = retry]

\* ------------------------------------------- createJsonErrorResponseHandler

\* const responseBody = await response.text()
ErrReadBody ==
    /\ handler = "error" /\ pc = "start"
    /\ responseBody' = response.text
    /\ pc' = "read"
    /\ UNCHANGED <<callVars, parsedError, message, outcome, result, calls, streamVars>>

\* if (responseBody.trim() === '') return new ApiCallError({...})
ErrEmptyBody ==
    /\ handler = "error" /\ pc = "read"
    /\ Trim(responseBody) = <<>>
    /\ LET retry == ApplyIsRetryable(isRetryable, response.status, Absent)
       IN  /\ calls' = IF isRetryable = "none" THEN calls
                       ELSE Append(calls, Call("isRetryable", Absent))
           /\ IF retry = "throw"
              THEN outcome' = "threw" /\ result' = CallbackError
              ELSE /\ outcome' = "returned"
                   /\ result' = FallbackError(response, url, requestBodyValues,
                                              responseBody, retry)
    /\ pc' = "done"
    /\ UNCHANGED <<callVars, localVars, streamVars>>

\* try { const parsedError = parseJSON({text: responseBody, schema: errorSchema}) ...
ErrParse ==
    /\ handler = "error" /\ pc = "read"
    /\ Trim(responseBody) # <<>>
    /\ LET r == ParseJSON(responseBody, schema)
       IN  IF r.threw
           THEN pc' = "catch" /\ parsedError' = parsedError
           ELSE pc' = "parsed" /\ parsedError' = r.value
    /\ UNCHANGED <<callVars, responseBody, message, outcome, result, calls, streamVars>>

\* message: errorToMessage(parsedError), the first property of the object literal
ErrMapMessage ==
    /\ handler = "error" /\ pc = "parsed"
    /\ LET m == ApplyErrorToMessage(errorToMessage, parsedError)
       IN  IF m.threw
           THEN pc' = "catch" /\ message' = message
           ELSE pc' = "mapped" /\ message' = m.value
    /\ calls' = Append(calls, Call("errorToMessage", parsedError))
    /\ UNCHANGED <<callVars, responseBody, parsedError, outcome, result, streamVars>>

\* isRetryable: isRetryable?.(response, parsedError), then return new ApiCallError
ErrReturnDecoded ==
    /\ handler = "error" /\ pc = "mapped"
    /\ LET retry == ApplyIsRetryable(isRetryable, response.status, parsedError)
       IN  /\ calls' = IF isRetryable = "none" THEN calls
                       ELSE Append(calls, Call("isRetryable", parsedError))
           /\ IF retry = "throw"
              THEN pc' = "catch" /\ UNCHANGED <<outcome, result>>
              ELSE /\ pc' = "done"
                   /\ outcome' = "returned"
                   /\ result' = DecodedError(response, url, requestBodyValues,
                                             responseBody, message, parsedError, retry)
    /\ UNCHANGED <<callVars, localVars, streamVars>>

\* catch (parseError) { return new ApiCallError({...}) }
ErrCatch ==
    /\ handler = "error" /\ pc = "catch"
    /\ LET retry == ApplyIsRetryable(isRetryable, response.status, Absent)
       IN  /\ calls' = IF isRetryable = "none" THEN calls
                       ELSE Append(calls, Call("isRetryable", Absent))
           /\ IF retry = "throw"
              THEN outcome' = "threw" /\ result' = CallbackError
              ELSE /\ outcome' = "returned"
                   /\ result' = FallbackError(response, url, requestBodyValues,
                                              responseBody, retry)
    /\ pc' = "done"
    /\ UNCHANGED <<callVars, localVars, streamVars>>

\* ------------------------------------------------ createJsonResponseHandler

\* throw new ApiCallError({message: 'Invalid JSON response', cause: parsedResult.error, ...})
\* variant: the cause property is left out
InvalidJsonErrorNoCause(resp, u, req, body, err) ==
    [NoResult EXCEPT !.type = "ApiCallError", !.message = "Invalid JSON response",
                     !.statusCode = resp.status, !.responseBody = body, !.url = u,
                     !.requestBodyValues = req]

InvalidJsonError(resp, u, req, body, err) ==
    [NoResult EXCEPT !.type = "ApiCallError", !.message = "Invalid JSON response",
                     !.cause = err, !.statusCode = resp.status, !.responseBody = body,
                     !.url = u, !.requestBodyValues = req]

\* const responseBody = await response.text()
JsonReadBody ==
    /\ handler = "json" /\ pc = "start"
    /\ responseBody' = response.text
    /\ pc' = "read"
    /\ UNCHANGED <<callVars, parsedError, message, outcome, result, calls, streamVars>>

\* safeParseJSON, then throw the wrapping error or return parsedResult.value
JsonParse ==
    /\ handler = "json" /\ pc = "read"
    /\ LET r == SafeParseJSON(responseBody, schema)
       IN  IF ~r.success
           THEN /\ outcome' = "threw"
                /\ result' = InvalidJsonError(response, url, requestBodyValues,
                                              responseBody, r.error)
           ELSE /\ outcome' = "returned"
                /\ result' = [NoResult EXCEPT !.type = "value", !.value = r.value]
    /\ pc' = "done"
    /\ UNCHANGED <<callVars, localVars, calls, streamVars>>

\* ----------------------------------------- createEventSourceResponseHandler

DONE == <<"[", "D", "O", "N", "E", "]">>

\* the data of one server-sent event block on the wire
EventData == {DONE, <<"1">>, <<"1", "1">>, <<"[", "1", "]">>, <<"]">>}

RECURSIVE WiresUpTo(_)
WiresUpTo(n) ==
    IF n = 0 THEN {<<>>}
    ELSE LET shorter == WiresUpTo(n - 1)
         IN  shorter \cup {Append(w, d) : w \in {s \in shorter : Len(s) = n - 1}, d \in EventData}

Wires == WiresUpTo(MaxEvents)

ValueChunk(v) == [type |-> "value", value |-> v, error |-> NoError]

ErrorChunk(e) == [type |-> "error", value |-> Absent, error |-> e]

\* if (response.body == null) throw new Error('No response body')
\* variant: the null check is left out
BodyMissingNever(state) == FALSE

BodyMissing(state) == state = "null"

NoResponseBody == [NoResult EXCEPT !.type = "Error", !.message = "No response body"]

\* the chunks one transform({data}, controller) call enqueues
\* variant: the [DONE] test is left out
TransformKeepsDone(event, chunkSchema) ==
    LET parseResult == SafeParseJSON(event.data, chunkSchema)
    IN  IF parseResult.success
        THEN <<ValueChunk(parseResult.value)>>
        ELSE <<ErrorChunk(parseResult.error)>>

\* variant: a failed parse enqueues nothing
TransformDropsFailures(event, chunkSchema) ==
    IF event.data = DONE THEN <<>>
    ELSE LET parseResult == SafeParseJSON(event.data, chunkSchema)
         IN  IF parseResult.success
             THEN <<ValueChunk(parseResult.value)>>
             ELSE <<>>

\* variant: a parsed value is enqueued twice
TransformEnqueuesTwice(event, chunkSchema) ==
    IF event.data = DONE THEN <<>>
    ELSE LET parseResult == SafeParseJSON(event.data, chunkSchema)
         IN  IF parseResult.success
             THEN <<ValueChunk(parseResult.value), ValueChunk(parseResult.value)>>
             ELSE <<ErrorChunk(parseResult.error)>>

TransformOutput(event, chunkSchema) ==
    IF event.data = DONE THEN <<>>
    ELSE LET parseResult == SafeParseJSON(event.data, chunkSchema)
         IN  IF parseResult.success
             THEN <<ValueChunk(parseResult.value)>>
             ELSE <<ErrorChunk(parseResult.error)>>

\* the async function's body: it holds no await, so it runs to completion
StreamInvoke ==
    /\ handler = "stream" /\ pc = "start"
    /\ IF BodyMissing(bodyState)
       THEN /\ outcome' = "threw"
            /\ result' = NoResponseBody
            /\ consumer' = consumer
       ELSE /\ outcome' = "returned"
            /\ result' = [NoResult EXCEPT !.type = "stream"]
            /\ consumer' = "reading"
    /\ pc' = "done"
    /\ UNCHANGED <<callVars, localVars, calls, bodyState, bodyPos, decoded, parsed,
                   chunks, emitted, delivered, transformCalls, closed, cancel>>

\* the pipeline exists once the three pipeThrough calls have run
Piped == handler = "stream" /\ consumer # "none"

\* response.body.pipeThrough(new TextDecoderStream()): one block read and decoded
PumpDecoder ==
    /\ Piped /\ bodyState = "readable" /\ cancel < 3
    /\ bodyPos < Len(response.events)
    /\ decoded = <<>>
    /\ decoded' = <<response.events[bodyPos + 1]>>
    /\ bodyPos' = bodyPos + 1
    /\ UNCHANGED <<callVars, localVars, pc, outcome, result, calls, bodyState, parsed,
                   chunks, emitted, delivered, transformCalls, closed, cancel, consumer>>

\* .pipeThrough(new EventSourceParserStream()): one block framed as a ParsedEvent
PumpParser ==
    /\ Piped /\ cancel < 2
    /\ decoded # <<>> /\ parsed = <<>>
    /\ parsed' = <<[type |-> "event", data |-> Head(decoded)]>>
    /\ decoded' = Tail(decoded)
    /\ UNCHANGED <<callVars, localVars, pc, outcome, result, calls, bodyState, bodyPos,
                   chunks, emitted, delivered, transformCalls, closed, cancel, consumer>>

\* .pipeThrough(new TransformStream({transform({data}, controller) {...}}))
Transform ==
    /\ Piped /\ cancel < 1
    /\ parsed # <<>> /\ chunks = <<>>
    /\ LET out == TransformOutput(Head(parsed), schema)
       IN  /\ chunks' = chunks \o out
           /\ emitted' = emitted \o out
    /\ parsed' = Tail(parsed)
    /\ transformCalls' = transformCalls + 1
    /\ UNCHANGED <<callVars, localVars, pc, outcome, result, calls, bodyState, bodyPos,
                   decoded, delivered, closed, cancel, consumer>>

\* the consumer reads the next chunk of the returned stream
Read ==
    /\ Piped /\ consumer = "reading"
    /\ chunks # <<>>
    /\ delivered' = Append(delivered, Head(chunks))
    /\ chunks' = Tail(chunks)
    /\ UNCHANGED <<callVars, localVars, pc, outcome, result, calls, bodyState, bodyPos,
                   decoded, parsed, emitted, transformCalls, closed, cancel, consumer>>

\* the transport ends the body; the first pipe closes the decoder
BodyEnd ==
    /\ Piped /\ bodyState = "readable" /\ cancel < 3
    /\ bodyPos = Len(response.events)
    /\ bodyState' = "closed"
    /\ closed' = 1
    /\ UNCHANGED <<callVars, localVars, pc, outcome, result, calls, bodyPos, decoded,
                   parsed, chunks, emitted, delivered, transformCalls, cancel, consumer>>

\* the second pipe has drained the decoder and closes the parser
CloseParser ==
    /\ Piped /\ closed = 1 /\ cancel < 2
    /\ decoded = <<>>
    /\ closed' = 2
    /\ UNCHANGED <<callVars, localVars, pc, outcome, result, calls, bodyState, bodyPos,
                   decoded, parsed, chunks, emitted, delivered, transformCalls, cancel,
                   consumer>>

\* the third pipe has drained the parser and closes the transform
CloseTransform ==
    /\ Piped /\ closed = 2 /\ cancel < 1
    /\ parsed = <<>>
    /\ closed' = 3
    /\ UNCHANGED <<callVars, localVars, pc, outcome, result, calls, bodyState, bodyPos,
                   decoded, parsed, chunks, emitted, delivered, transformCalls, cancel,
                   consumer>>

\* the consumer reads the end of the returned stream
ReadEnd ==
    /\ Piped /\ consumer = "reading"
    /\ closed = 3 /\ chunks = <<>>
    /\ consumer' = "done"
    /\ UNCHANGED <<callVars, localVars, pc, outcome, result, calls, bodyState, bodyPos,
                   decoded, parsed, chunks, emitted, delivered, transformCalls, closed,
                   cancel>>

\* the consumer abandons the iteration: the transform's readable side is cancelled
Cancel ==
    /\ Piped /\ consumer = "reading"
    /\ consumer' = "cancelled"
    /\ cancel' = 1
    /\ chunks' = <<>>
    /\ UNCHANGED <<callVars, localVars, pc, outcome, result, calls, bodyState, bodyPos,
                   decoded, parsed, emitted, delivered, transformCalls, closed>>

\* the third pipe finds its destination errored and cancels the parser's readable
CancelParser ==
    /\ Piped /\ cancel = 1
    /\ cancel' = 2
    /\ parsed' = <<>>
    /\ UNCHANGED <<callVars, localVars, pc, outcome, result, calls, bodyState, bodyPos,
                   decoded, chunks, emitted, delivered, transformCalls, closed, consumer>>

\* the second pipe finds its destination errored and cancels the decoder's readable
CancelDecoder ==
    /\ Piped /\ cancel = 2
    /\ cancel' = 3
    /\ decoded' = <<>>
    /\ UNCHANGED <<callVars, localVars, pc, outcome, result, calls, bodyState, bodyPos,
                   parsed, chunks, emitted, delivered, transformCalls, closed, consumer>>

\* what the first pipe does to response.body when its destination is errored
\* variant: the pipe is built with preventCancel
BodyAfterCancelPrevented(state) == state

BodyAfterCancel(state) == IF state = "readable" THEN "cancelled" ELSE state

\* the first pipe finds its destination errored and cancels response.body
CancelBody ==
    /\ Piped /\ cancel = 3
    /\ cancel' = 4
    /\ bodyState' = BodyAfterCancel(bodyState)
    /\ UNCHANGED <<callVars, localVars, pc, outcome, result, calls, bodyPos, decoded,
                   parsed, chunks, emitted, delivered, transformCalls, closed, consumer>>

\* -------------------------------------------------------------- the system

InitCommon ==
    /\ pc = "start"
    /\ url \in Urls
    /\ requestBodyValues \in RequestBodies
    /\ schema \in Schemas
    /\ responseBody = <<>>
    /\ parsedError = Absent
    /\ message = ""
    /\ outcome = "pending"
    /\ result = NoResult
    /\ calls = <<>>
    /\ bodyPos = 0
    /\ decoded = <<>>
    /\ parsed = <<>>
    /\ chunks = <<>>
    /\ emitted = <<>>
    /\ delivered = <<>>
    /\ transformCalls = 0
    /\ closed = 0
    /\ cancel = 0
    /\ consumer = "none"

Response(status, text, events) ==
    [status |-> status, statusText |-> StatusText(status), text |-> text, events |-> events]

InitError ==
    /\ handler = "error"
    /\ \E status \in Statuses, text \in BodyTexts : response = Response(status, text, <<>>)
    /\ errorToMessage \in MessageMappers
    /\ isRetryable \in RetryPredicates
    /\ bodyState = "readable"

InitJson ==
    /\ handler = "json"
    /\ \E text \in BodyTexts : response = Response(200, text, <<>>)
    /\ errorToMessage = "byPayload"
    /\ isRetryable = "none"
    /\ bodyState = "readable"

InitStream ==
    /\ handler = "stream"
    /\ \E events \in Wires : response = Response(200, <<>>, events)
    /\ errorToMessage = "byPayload"
    /\ isRetryable = "none"
    /\ bodyState \in {"null", "readable"}

Init == InitCommon /\ (InitError \/ InitJson \/ InitStream)

Next ==
    \/ ErrReadBody
    \/ ErrEmptyBody
    \/ ErrParse
    \/ ErrMapMessage
    \/ ErrReturnDecoded
    \/ ErrCatch
    \/ JsonReadBody
    \/ JsonParse
    \/ StreamInvoke
    \/ PumpDecoder
    \/ PumpParser
    \/ Transform
    \/ Read
    \/ BodyEnd
    \/ CloseParser
    \/ CloseTransform
    \/ ReadEnd
    \/ Cancel
    \/ CancelParser
    \/ CancelDecoder
    \/ CancelBody

Spec == Init /\ [][Next]_vars

\* the event loop runs every pending pipe reaction
LiveSpec ==
    /\ Spec
    /\ WF_vars(CancelParser)
    /\ WF_vars(CancelDecoder)
    /\ WF_vars(CancelBody)

\* ------------------------------------------------------------------- claims

\* JSON.stringify of a value of the sub-language
RECURSIVE Stringify(_)
Stringify(v) ==
    IF v.kind = "num" THEN [i \in 1..(CHOOSE k \in 0..8 : Repunit(k) = v.n) |-> "1"]
    ELSE IF v.items = <<>> THEN <<"[", "]">>
    ELSE <<"[">> \o Stringify(v.items[1]) \o <<"]">>

\* values a caller may encode and send as a whole JSON body
SampleValues == {Num(1), Num(11), Num(111), Arr(<<>>), Arr(<<Num(1)>>)}

IsPrefix(a, b) == Len(a) <= Len(b) /\ SubSeq(b, 1, Len(a)) = a

ErrDone == handler = "error" /\ pc = "done"

\* the body takes the fallback path: empty once trimmed, or not decodable
FallbackCase == Trim(response.text) = <<>> \/ ~JSONParse(response.text).ok
                    \/ ~Conforms(JSONParse(response.text).value, schema)

\* the payload the error schema accepts, when the body is decodable
Payload == JSONParse(response.text).value

CarriesContext ==
    /\ result.type = "ApiCallError"
    /\ result.url = url
    /\ result.requestBodyValues = requestBodyValues
    /\ result.statusCode = response.status
    /\ result.responseBody = response.text

\* C1: the error handler never raises: for every body text and every
\* retryability predicate (or none) the invocation ends by returning an
\* ApiCallError that carries the url, the request payload, the status code and
\* the raw body text.
C1_ErrorHandlerNeverRaises ==
    /\ handler = "error" => outcome # "threw"
    /\ ErrDone => outcome = "returned" /\ CarriesContext

\* C2: on an empty (trimmed) body or a body that fails parsing or validation,
\* the returned error has the status text as message, no decoded payload, the
\* predicate's answer for the response alone as retryability ("undefined"
\* without a predicate) and the body text verbatim; apart from the raw body the
\* result is the one of the empty body.
C2_FallbackShape ==
    (ErrDone /\ FallbackCase
        /\ ApplyIsRetryable(isRetryable, response.status, Absent) # "throw")
    => /\ outcome = "returned"
       /\ CarriesContext
       /\ result.message = response.statusText
       /\ result.data = Absent
       /\ result.cause = NoError
       /\ result.isRetryable = IF isRetryable = "none" THEN "undefined"
                               ELSE ApplyIsRetryable(isRetryable, response.status, Absent)
       /\ [result EXCEPT !.responseBody = <<>>] =
              [type |-> "ApiCallError", message |-> StatusText(response.status),
               url |-> url, requestBodyValues |-> requestBodyValues,
               statusCode |-> response.status, responseBody |-> <<>>,
               data |-> Absent, cause |-> NoError, value |-> Absent,
               isRetryable |-> ApplyIsRetryable(isRetryable, response.status, Absent)]

\* a body with blanks around undecodable text came back untrimmed
C2_Witness ==
    /\ ErrDone /\ outcome = "returned"
    /\ response.text = <<" ", "]", " ">>
    /\ result.responseBody = <<" ", "]", " ">>
    /\ isRetryable = "status429" /\ response.status = 429
    /\ result.isRetryable = "true"

\* C3: on a body that parses and validates, the returned error has the mapped
\* message, the decoded payload attached and the predicate's answer for
\* (response, payload) as retryability.
C3_DecodedShape ==
    (ErrDone /\ ~FallbackCase
        /\ ~ApplyErrorToMessage(errorToMessage, Payload).threw
        /\ ApplyIsRetryable(isRetryable, response.status, Payload) # "throw")
    => /\ outcome = "returned"
       /\ CarriesContext
       /\ result.message = ApplyErrorToMessage(errorToMessage, Payload).value
       /\ result.data = Payload
       /\ result.data # Absent
       /\ result.isRetryable = ApplyIsRetryable(isRetryable, response.status, Payload)

\* status 429, a conforming body, a mapper reading the payload and a predicate
\* that answers true for 429: message "rate limited", retryable true
C3_Witness ==
    /\ ErrDone /\ outcome = "returned"
    /\ response.status = 429 /\ response.text = <<"1">> /\ schema = "number"
    /\ isRetryable = "status429"
    /\ result.message = "rate limited"
    /\ result.data = Num(1)
    /\ result.isRetryable = "true"

\* C10: when the body parses and validates but the mapper or the predicate
\* raises on the decoded payload, the handler does not raise: it returns the
\* fallback-shaped error, its retryability taken from the predicate invoked
\* with the response alone.
C10_CallbackFailureAbsorbed ==
    (ErrDone /\ ~FallbackCase
        /\ (ApplyErrorToMessage(errorToMessage, Payload).threw
            \/ ApplyIsRetryable(isRetryable, response.status, Payload) = "throw"))
    => /\ outcome = "returned"
       /\ CarriesContext
       /\ result.message = response.statusText
       /\ result.data = Absent
       /\ isRetryable # "none" => calls[Len(calls)] = Call("isRetryable", Absent)

JsonDone == handler = "json" /\ pc = "done"

\* C7: the whole-body handler returns the decoded value exactly when the body
\* parses and validates (an encoded value of the schema's shape comes back
\* equal); for every other body it raises an ApiCallError "Invalid JSON
\* response" with the parse failure as cause, the status code, the raw body,
\* the url and the request payload.
C7_WholeBody ==
    JsonDone =>
        /\ (outcome = "returned") = (JSONParse(response.text).ok
                                     /\ Conforms(JSONParse(response.text).value, schema))
        /\ outcome = "returned" =>
              /\ result.type = "value"
              /\ result.value = JSONParse(response.text).value
        /\ \A v \in SampleValues :
              (Conforms(v, schema) /\ response.text = Stringify(v)) =>
                  outcome = "returned" /\ result.value = v
        /\ outcome # "returned" =>
              /\ outcome = "threw"
              /\ CarriesContext
              /\ result.message = "Invalid JSON response"
              /\ result.value = Absent
              /\ result.cause.name =
                    (IF JSONParse(response.text).ok THEN "TypeValidationError"
                     ELSE "JSONParseError")
              /\ result.cause.text = response.text

\* valid JSON of the wrong shape was raised as "Invalid JSON response"
C7_Witness ==
    /\ JsonDone /\ outcome = "threw"
    /\ response.text = <<"[", "1", "]">> /\ schema = "number"
    /\ result.message = "Invalid JSON response"
    /\ result.cause.name = "TypeValidationError"

\* the events on the wire that transform() has been called with
Transformed == SubSeq(response.events, 1, transformCalls)

\* the chunk an event must yield, from the schema and its data
ExpectedChunk(data) ==
    IF JSONParse(data).ok /\ Conforms(JSONParse(data).value, schema)
    THEN ValueChunk(JSONParse(data).value)
    ELSE ErrorChunk([name |-> IF JSONParse(data).ok THEN "TypeValidationError"
                              ELSE "JSONParseError",
                     text |-> data])

\* one chunk per event that is not [DONE], in order
RECURSIVE ChunksFor(_)
ChunksFor(events) ==
    IF events = <<>> THEN <<>>
    ELSE IF Head(events) = DONE THEN ChunksFor(Tail(events))
    ELSE <<ExpectedChunk(Head(events))>> \o ChunksFor(Tail(events))

\* one chunk per event up to the first [DONE], none after it
RECURSIVE ChunksUntilDone(_)
ChunksUntilDone(events) ==
    IF events = <<>> \/ Head(events) = DONE THEN <<>>
    ELSE <<ExpectedChunk(Head(events))>> \o ChunksUntilDone(Tail(events))

\* N well-formed events, then one [DONE]
WellFormedThenDone ==
    /\ response.events # <<>>
    /\ response.events[Len(response.events)] = DONE
    /\ \A i \in 1..(Len(response.events) - 1) :
          /\ JSONParse(response.events[i]).ok
          /\ Conforms(JSONParse(response.events[i]).value, schema)

\* C4: N well-formed events followed by one [DONE] yield exactly N chunks,
\* each success-tagged, the i-th carrying the i-th event's decoded value.
C4_OrderedValues ==
    (handler = "stream" /\ WellFormedThenDone) =>
        LET n == Len(response.events) - 1
            expected == [i \in 1..n |-> ValueChunk(JSONParse(response.events[i]).value)]
        IN  /\ IsPrefix(emitted, expected)
            /\ IsPrefix(delivered, emitted)
            /\ consumer = "done" => delivered = expected /\ Len(delivered) = n

\* two different values and the terminator were read to the end
C4_Witness ==
    /\ handler = "stream" /\ consumer = "done" /\ schema = "number"
    /\ response.events = <<<<"1">>, <<"1", "1">>, DONE>>
    /\ delivered = <<ValueChunk(Num(1)), ValueChunk(Num(11))>>

\* C5: every event other than [DONE] yields exactly one chunk, failure-tagged
\* when its data is not valid JSON or fails the schema and success-tagged
\* otherwise, and a failure does not stop later events from yielding theirs.
C5_OneChunkPerEvent ==
    handler = "stream" =>
        /\ emitted = ChunksFor(Transformed)
        /\ IsPrefix(delivered, emitted)
        /\ consumer = "done" =>
              /\ transformCalls = Len(response.events)
              /\ delivered = ChunksFor(response.events)

\* a malformed event, then a valid one: a failure chunk, then a value chunk
C5_Witness ==
    /\ handler = "stream" /\ consumer = "done" /\ schema = "number"
    /\ response.events = <<<<"]">>, <<"1">>>>
    /\ Len(delivered) = 2
    /\ delivered[1].type = "error" /\ delivered[1].error.name = "JSONParseError"
    /\ delivered[2] = ValueChunk(Num(1))

\* C6 as stated: [DONE] ends the logical stream; no chunk for it and none for
\* any event after it.
C6_DoneEndsStream ==
    handler = "stream" => emitted = ChunksUntilDone(Transformed)

\* the number of events other than [DONE]
RECURSIVE CountData(_)
CountData(events) ==
    IF events = <<>> THEN 0
    ELSE (IF Head(events) = DONE THEN 0 ELSE 1) + CountData(Tail(events))

\* C6 as amended: a [DONE] event yields no chunk and leaves the pipeline as it
\* was (neither closed nor cancelled); the events after it still yield theirs.
C6_DoneIsOnlyFiltered ==
    /\ [](handler = "stream" => Len(emitted) = CountData(Transformed))
    /\ [][(handler = "stream" /\ transformCalls' = transformCalls + 1
              /\ Head(parsed).data = DONE)
          => /\ emitted' = emitted
             /\ chunks' = chunks
             /\ closed' = closed /\ cancel' = cancel /\ consumer' = consumer
             /\ bodyState' = bodyState]_vars

\* a chunk was produced for an event that arrived after [DONE]
C6_Witness ==
    /\ handler = "stream" /\ schema = "number"
    /\ response.events = <<DONE, <<"1">>>>
    /\ transformCalls = 2
    /\ emitted = <<ValueChunk(Num(1))>>

\* C8: cancelling the iteration at any point leads to response.body being
\* cancelled (or already ended), and no chunk is produced or delivered after
\* the cancellation.
C8_CancelReleasesBody ==
    /\ (consumer = "cancelled") ~> (bodyState \in {"cancelled", "closed"})
    /\ [][consumer = "cancelled" =>
            emitted' = emitted /\ delivered' = delivered /\ chunks' = <<>>]_vars

\* the iteration was abandoned with events unread and the body got cancelled
C8_Witness ==
    /\ handler = "stream" /\ consumer = "cancelled"
    /\ bodyState = "cancelled"
    /\ bodyPos < Len(response.events)
    /\ delivered # <<>>

\* C9: without a body the invocation fails at once with 'No response body',
\* builds no pipeline and never yields a chunk; with a body it returns the
\* stream without having read anything from the body.
C9_FailsFastWithoutBody ==
    /\ [](handler = "stream" /\ bodyState = "null" =>
            /\ outcome # "returned"
            /\ consumer = "none"
            /\ emitted = <<>> /\ delivered = <<>>
            /\ bodyPos = 0 /\ transformCalls = 0)
    /\ [][(handler = "stream" /\ pc = "start" /\ pc' = "done") =>
            IF bodyState = "null"
            THEN /\ outcome' = "threw"
                 /\ result'.type = "Error"
                 /\ result'.message = "No response body"
            ELSE /\ outcome' = "returned"
                 /\ result'.type = "stream"
                 /\ consumer' = "reading"
                 /\ bodyState' = "readable"
                 /\ bodyPos' = 0 /\ decoded' = <<>> /\ emitted' = <<>>]_vars

\* an invocation without a body has failed, with events waiting on the wire
C9_Witness ==
    /\ handler = "stream" /\ bodyState = "null" /\ pc = "done"
    /\ outcome = "threw" /\ result.message = "No response body"
    /\ response.events # <<>>

====
